---- MODULE Spec2Model ----
(***************************************************************************)
(* Mood check-in bot: keyword classifier (classifier.py), response         *)
(* selection (content_loader.py), check-in ledger (storage.py) and the     *)
(* check-in conversation (bot.py).                                         *)
(*                                                                         *)
(* Strings that the code inspects character by character (user text,       *)
(* keywords) are sequences of one-character strings; all other strings     *)
(* are TLA+ strings.  Python's None is the value None.                     *)
(***************************************************************************)
EXTENDS Integers, Sequences, FiniteSets, TLC

VARIABLES
    keywords,       \* MoodClassifier.keywords: category key -> list of keywords
    user_text,      \* the text last handed to classify_text_mood
    category,       \* the value it returned
    prev_text,      \* the text classified before the last edit of it
    prev_category,  \* ... and what that text was classified as
    edit,           \* how user_text was obtained from prev_text
    button_label,   \* the label last handed to the button classification
    call,           \* the classifier method called last
    responses,      \* ContentLoader.responses: category key -> category data
    media_files,    \* the files present in media/memes
    mood,           \* the category last handed to get_response_for_mood
    response,       \* the dict it returned
    users,          \* table users: user_id -> row
    checkins,       \* table checkins: the rows in order of their id
    tx,             \* the uncommitted writes of a log_checkin in progress
    now,            \* the time, in UTC
    utc_offset,     \* local time of the host minus UTC
    LOG_RAW_TEXT,   \* config.LOG_RAW_TEXT
    ret,            \* the Database method that returned last, and its value
    conv            \* ConversationHandler: (chat, user) -> state

cvars ==
    <<keywords, user_text, category, prev_text, prev_category, edit,
      button_label, call>>

rvars == <<responses, media_files, mood, response>>

\* The database, its clocks and its configuration
dvars == <<users, checkins, tx, now, utc_offset, LOG_RAW_TEXT>>

lvars == <<dvars, ret, conv>>

vars == <<cvars, rvars, lvars>>

None == "None"

(***************************************************************************)
(* Bounds                                                                  *)
(***************************************************************************)
MaxLen == 3
MaxCats == 2
\* The clock counts ticks of 24 / TicksPerDay hours
TicksPerDay == 2
\* No more rows than this are written to table checkins
MaxCheckins == 2

(***************************************************************************)
(* config.py                                                               *)
(***************************************************************************)
MOOD_CATEGORIES ==
    {"POSITIVE", "NEUTRAL_TIRED", "SAD_LOW", "ANGRY_FRUSTRATED",
     "ANXIOUS_STRESSED", "HEAVY_DEEP"}

\* A key of keywords.json / responses.json that is no mood category.
UnknownCategory == "OTHER"

CategoryKeys == MOOD_CATEGORIES \cup {UnknownCategory}

(***************************************************************************)
(* Characters.  str.lower() maps "A" to "a"; the regex class \w holds the  *)
(* letters, \s the blank; every other character is punctuation.            *)
(***************************************************************************)
Alphabet == {"a", "A", " ", "!"}

IsWord(c) == c \in {"a", "A"}
IsSpace(c) == c = " "
IsPunct(c) == ~IsWord(c) /\ ~IsSpace(c)

LowerChar(c) == IF c = "A" THEN "a" ELSE c

\* text.lower()
Lower(s) == [i \in 1..Len(s) |-> LowerChar(s[i])]

\* re.sub(r'[^\w\s]', ' ', text)
SubPunct(s) == [i \in 1..Len(s) |-> IF IsPunct(s[i]) THEN " " ELSE s[i]]

\* text.split(): the maximal runs of non-blank characters, in order
RECURSIVE SplitFrom(_, _, _)
SplitFrom(s, i, cur) ==
    IF i > Len(s)
    THEN IF cur = << >> THEN << >> ELSE <<cur>>
    ELSE IF IsSpace(s[i])
         THEN IF cur = << >>
              THEN SplitFrom(s, i + 1, << >>)
              ELSE <<cur>> \o SplitFrom(s, i + 1, << >>)
         ELSE SplitFrom(s, i + 1, Append(cur, s[i]))

Split(s) == SplitFrom(s, 1, << >>)

\* ' '.join(parts)
RECURSIVE Join(_)
Join(parts) ==
    IF parts = << >> THEN << >>
    ELSE IF Len(parts) = 1 THEN parts[1]
    ELSE parts[1] \o <<" ">> \o Join(Tail(parts))

NormalizeNoLower(text) == Join(Split(SubPunct(text)))

\* MoodClassifier._normalize_text
_normalize_text(text) == Join(Split(SubPunct(Lower(text))))

\* Python's  k in s  for strings: k occurs in s as a contiguous block
IsSubstring(k, s) ==
    \E i \in 0..(Len(s) - Len(k)) : SubSeq(s, i + 1, i + Len(k)) = k

InList(x, list) == \E i \in 1..Len(list) : list[i] = x

KeywordMatchesSubstringOnly(keyword, normalized, words) ==
    IsSubstring(_normalize_text(keyword), normalized)

\* classifier.py lines 57-61: the test applied to one keyword
KeywordMatches(keyword, normalized, words) ==
    LET keyword_normalized == _normalize_text(keyword)
        kws == Split(keyword_normalized)
    IN  \/ IsSubstring(keyword_normalized, normalized)
        \/ \E j \in 1..Len(kws) : InList(kws[j], words)

\* classifier.py lines 49-63: the set matched_categories
matched_categories(table, text) ==
    LET normalized == _normalize_text(text)
        words == Split(normalized)
    IN  {c \in DOMAIN table :
            \E i \in 1..Len(table[c]) :
                KeywordMatches(table[c][i], normalized, words)}

priority_swapped ==
    <<"POSITIVE", "NEUTRAL_TIRED", "ANXIOUS_STRESSED", "ANGRY_FRUSTRATED",
      "HEAVY_DEEP", "SAD_LOW">>

\* MoodClassifier.priority (higher index = higher priority)
priority ==
    <<"POSITIVE", "NEUTRAL_TIRED", "ANXIOUS_STRESSED", "ANGRY_FRUSTRATED",
      "SAD_LOW", "HEAVY_DEEP">>

DefaultPositive == "POSITIVE"

\* classifier.py line 67
DefaultCategory == "NEUTRAL_TIRED"

\* classifier.py lines 66-74: the values classify_text_mood can return.
\* Line 74 takes the first element of a set of strings, whose iteration
\* order differs from run to run: any matched category can come out.
classify_text_mood(table, text) ==
    LET matched == matched_categories(table, text)
        ranked == {i \in 1..Len(priority) : priority[i] \in matched}
    IN  IF matched = {} THEN {DefaultCategory}
        ELSE IF ranked # {}
             THEN {priority[CHOOSE i \in ranked : \A j \in ranked : j <= i]}
             ELSE matched


\* config.py MOOD_BUTTONS (the labels without their emoji)
MOOD_BUTTONS ==
    [l \in {"Happy", "Okay", "Tired", "Sad", "Angry", "Anxious", "Empty"} |->
        CASE l = "Happy" -> "POSITIVE"
          [] l = "Okay" -> "NEUTRAL_TIRED"
          [] l = "Tired" -> "NEUTRAL_TIRED"
          [] l = "Sad" -> "SAD_LOW"
          [] l = "Angry" -> "ANGRY_FRUSTRATED"
          [] l = "Anxious" -> "ANXIOUS_STRESSED"
          [] l = "Empty" -> "HEAVY_DEEP"]

\* Labels a callback can carry: the seven buttons, and labels of no button
ButtonLabels == DOMAIN MOOD_BUTTONS \cup {"Bored", ""}

\* MoodClassifier.classify_button_mood: MOOD_BUTTONS.get(button_label, None)
classify_button_mood(button_label_) ==
    IF button_label_ \in DOMAIN MOOD_BUTTONS
    THEN MOOD_BUTTONS[button_label_] ELSE None

classify_no_default(table, mood_input, is_button) ==
    IF is_button
    THEN {classify_button_mood(mood_input)}
    ELSE classify_text_mood(table, mood_input)

\* MoodClassifier.classify: the values it can return
classify(table, mood_input, is_button) ==
    IF is_button
    THEN LET c == classify_button_mood(mood_input)
         IN  {IF c # None THEN c ELSE "NEUTRAL_TIRED"}
    ELSE classify_text_mood(table, mood_input)

(***************************************************************************)
(* Inputs of the classifier                                                *)
(***************************************************************************)
RECURSIVE SeqsUpTo(_, _)
SeqsUpTo(S, n) ==
    IF n = 0 THEN {<< >>}
    ELSE LET shorter == SeqsUpTo(S, n - 1)
         IN  shorter \cup {Append(s, x) : s \in shorter, x \in S}

Texts == SeqsUpTo(Alphabet, MaxLen)

\* Keywords as written in keywords.json: a word, a longer word, a phrase
\* with capitals and punctuation, and one made of punctuation only.
KeywordPool == {<<"a">>, <<"a", "a">>, <<"A", "!", "a">>, <<"!">>}

\* The keyword lists of one category in the tables of several categories:
\* one of the two plain words
KeywordLists == {<<k>> : k \in {<<"a">>, <<"a", "a">>}}

\* json.load of keywords.json, or {} when the file is missing: the tables
\* with at most MaxCats category keys
_load_keywords ==
    UNION {[S -> KeywordLists] :
             S \in {T \in SUBSET CategoryKeys : Cardinality(T) <= MaxCats}}

\* The tables of one category key and one keyword, and the empty table
OneKeywordTables ==
    {[k \in {} |-> << >>]} \cup
    {[c \in {k} |-> <<w>>] : k \in CategoryKeys, w \in KeywordPool}

(***************************************************************************)
(* The classifier called on its inputs                                     *)
(***************************************************************************)
\* No call made yet on a classifier holding the table kw
ClassifierLoaded(kw) ==
    /\ keywords = kw
    /\ user_text = << >>
    /\ category = None
    /\ prev_text = << >>
    /\ prev_category = None
    /\ edit = "none"
    /\ button_label = ""
    /\ call = "none"

\* No call made yet on a content loader holding the catalog rs
ContentLoaded(rs, files) ==
    /\ responses = rs
    /\ media_files = files
    /\ mood = None
    /\ response = None

EmptyDict == [k \in {} |-> << >>]

\* Telegram user ids and chat ids
UserIds == {"u1", "u2"}
ChatIds == {"private", "group"}

\* ConversationHandler.END, and the state AWAITING_MOOD_TEXT
END == "END"
AWAITING_MOOD_TEXT == "AWAITING_MOOD_TEXT"

\* SQL NULL / Python None for a value that is otherwise a number or a
\* row: the empty tuple, a present value x being <<x>>
Null == << >>
Some(x) == <<x>>

\* Database.__init__ on a new file and the handlers of bot.main
\* registered: empty tables, no conversation open.  The host's UTC offset
\* and LOG_RAW_TEXT come from the environment.
DatabaseCreated(offset, raw) ==
    /\ users = EmptyDict
    /\ checkins = << >>
    /\ tx = Null
    /\ now = 0
    /\ utc_offset = offset
    /\ LOG_RAW_TEXT = raw
    /\ ret = [op |-> "none"]
    /\ conv = [k \in ChatIds \X UserIds |-> END]

InitClassifier ==
    /\ \E kw \in _load_keywords : ClassifierLoaded(kw)
    /\ ContentLoaded(EmptyDict, {})
    /\ DatabaseCreated(0, FALSE)

CallClassifyTextMood ==
    /\ call = "none"
    /\ \E t \in Texts :
        /\ user_text' = t
        /\ category' \in classify_text_mood(keywords, t)
    /\ call' = "classify_text_mood"
    /\ UNCHANGED <<keywords, prev_text, prev_category, edit, button_label>>
    /\ UNCHANGED <<rvars, lvars>>

CallClassifyButtonMood ==
    /\ call = "none"
    /\ \E l \in ButtonLabels :
        /\ button_label' = l
        /\ category' = classify_button_mood(l)
    /\ call' = "classify_button_mood"
    /\ UNCHANGED <<keywords, user_text, prev_text, prev_category, edit>>
    /\ UNCHANGED <<rvars, lvars>>

CallClassifyButton ==
    /\ call = "none"
    /\ \E l \in ButtonLabels :
        /\ button_label' = l
        /\ category' \in classify(keywords, l, TRUE)
    /\ call' = "classify_button"
    /\ UNCHANGED <<keywords, user_text, prev_text, prev_category, edit>>
    /\ UNCHANGED <<rvars, lvars>>

NextClassifier ==
    \/ CallClassifyTextMood
    \/ CallClassifyButtonMood
    \/ CallClassifyButton

SpecClassifier == InitClassifier /\ [][NextClassifier]_vars

(***************************************************************************)
(* Two texts that differ by one edit, classified one after the other       *)
(***************************************************************************)
ToggleCase(c) == IF c = "a" THEN "A" ELSE IF c = "A" THEN "a" ELSE c

\* s with c put after its first i characters
InsertAt(s, i, c) == SubSeq(s, 1, i) \o <<c>> \o SubSeq(s, i + 1, Len(s))

\* s without its i-th character
RemoveAt(s, i) == SubSeq(s, 1, i - 1) \o SubSeq(s, i + 1, Len(s))

\* The gap after the first i characters of s lies between two word characters
GapInsideWord(s, i) ==
    /\ i >= 1
    /\ i < Len(s)
    /\ IsWord(s[i])
    /\ IsWord(s[i + 1])

\* The texts one edit away from s, each with the kind of the edit
Edits(s) ==
    {<<"case", [s EXCEPT ![i] = ToggleCase(s[i])]>> :
        i \in {j \in 1..Len(s) : IsWord(s[j])}}
    \cup {<<"repeat_punct", InsertAt(s, i, s[i])>> :
        i \in {j \in 1..Len(s) : IsPunct(s[j])}}
    \cup {<<IF GapInsideWord(s, i) THEN "add_punct_in_word"
                                   ELSE "add_punct", InsertAt(s, i, "!")>> :
        i \in 0..Len(s)}
    \cup {<<IF GapInsideWord(RemoveAt(s, i), i - 1) THEN "remove_punct_in_word"
                                                   ELSE "remove_punct",
            RemoveAt(s, i)>> :
        i \in {j \in 1..Len(s) : IsPunct(s[j])}}

InitEdit ==
    /\ \E kw \in OneKeywordTables : ClassifierLoaded(kw)
    /\ ContentLoaded(EmptyDict, {})
    /\ DatabaseCreated(0, FALSE)

\* The user sends the edited text instead: classify_text_mood on it
EditText ==
    /\ call = "classify_text_mood"
    /\ edit = "none"
    /\ \E e \in Edits(user_text) :
        /\ Len(e[2]) <= MaxLen
        /\ edit' = e[1]
        /\ user_text' = e[2]
        /\ category' \in classify_text_mood(keywords, e[2])
    /\ prev_text' = user_text
    /\ prev_category' = category
    /\ UNCHANGED <<keywords, button_label, call>>
    /\ UNCHANGED <<rvars, lvars>>

NextEdit ==
    \/ CallClassifyTextMood
    \/ EditText

SpecEdit == InitEdit /\ [][NextEdit]_vars

(***************************************************************************)
(* Claims about the classifier                                             *)
(***************************************************************************)
\* The order of the claim, highest first
ClaimOrder ==
    <<"HEAVY_DEEP", "SAD_LOW", "ANGRY_FRUSTRATED", "ANXIOUS_STRESSED",
      "NEUTRAL_TIRED", "POSITIVE">>

ClaimRank(c) == CHOOSE i \in 1..Len(ClaimOrder) : ClaimOrder[i] = c

MatchedMoods == matched_categories(keywords, user_text) \cap MOOD_CATEGORIES

\* C1: a text that matches keywords of several categories is classified as
\* the matching category highest in HEAVY_DEEP > SAD_LOW > ANGRY_FRUSTRATED >
\* ANXIOUS_STRESSED > NEUTRAL_TIRED > POSITIVE; a text that matches
\* HEAVY_DEEP is classified HEAVY_DEEP whatever else it matches.
C1_PriorityOrder ==
    (call = "classify_text_mood" /\ MatchedMoods # {}) =>
        /\ category \in MatchedMoods
        /\ \A c \in MatchedMoods : ClaimRank(category) <= ClaimRank(c)
        /\ "HEAVY_DEEP" \in MatchedMoods => category = "HEAVY_DEEP"

C1_Witness ==
    /\ call = "classify_text_mood"
    /\ {"HEAVY_DEEP", "POSITIVE"} \subseteq MatchedMoods
    /\ category = "HEAVY_DEEP"

\* C6: a text that matches no keyword of any category is classified
\* NEUTRAL_TIRED, so every text is when the keyword table is empty; the
\* call always returns a category.
C6_NoMatchIsNeutral ==
    call = "classify_text_mood" =>
        /\ category # None
        /\ matched_categories(keywords, user_text) = {}
              => category = "NEUTRAL_TIRED"
        /\ DOMAIN keywords = {} => category = "NEUTRAL_TIRED"

C6_Witness ==
    /\ call = "classify_text_mood"
    /\ \E c \in DOMAIN keywords : keywords[c] # << >>
    /\ \E i \in 1..Len(user_text) : IsWord(user_text[i])
    /\ matched_categories(keywords, user_text) = {}
    /\ category = "NEUTRAL_TIRED"

ButtonExpected(l) ==
    IF l \in DOMAIN MOOD_BUTTONS THEN MOOD_BUTTONS[l] ELSE "NEUTRAL_TIRED"

Idempotent(t) == _normalize_text(_normalize_text(t)) = _normalize_text(t)

HasItems(category_data, key) ==
    /\ key \in DOMAIN category_data
    /\ category_data[key] # << >>

\* The values random.choice(list) can return
Choices(list) == {list[i] : i \in 1..Len(list)}

\* str(Path(MEDIA_DIR) / "memes" / meme_filename)
MemePath(meme_filename) == "media/memes/" \o meme_filename

\* content_loader.py line 35-40: the answer for a category not in the catalog
GenericContent ==
    [text |-> "Thanks for checking in. Take care of yourself.",
     meme |-> None, video |-> None, text_id |-> "default"]

MemeCategoriesAll == MOOD_CATEGORIES

meme_path_assumed(files, meme_filename) == TRUE

\* content_loader.py line 61: meme_path.exists()
meme_path_exists(files, meme_filename) == meme_filename \in files

\* content_loader.py line 58
MemeCategories == {"POSITIVE", "NEUTRAL_TIRED"}

\* content_loader.py line 68
VideoCategories == {"SAD_LOW", "ANXIOUS_STRESSED"}

\* ContentLoader.get_content_for_category: the dicts it can return, one
\* for each outcome of its random.choice calls
get_content_for_category(catalog, files, cat) ==
    IF cat \notin DOMAIN catalog THEN {GenericContent}
    ELSE
      LET category_data == catalog[cat]
          texts ==
              IF HasItems(category_data, "texts")
              THEN {<<t, cat \o "_text">> : t \in Choices(category_data["texts"])}
              ELSE {<<None, None>>}
          memes ==
              IF cat \in MemeCategories /\ HasItems(category_data, "memes")
              THEN {IF meme_path_exists(files, f) THEN MemePath(f) ELSE None :
                       f \in Choices(category_data["memes"])}
              ELSE {None}
          videos ==
              IF cat \in VideoCategories /\ HasItems(category_data, "videos")
              THEN Choices(category_data["videos"])
              ELSE {None}
      IN  {[text |-> t[1], meme |-> m, video |-> v, text_id |-> t[2]] :
              t \in texts, m \in memes, v \in videos}

\* ContentLoader._get_default_text
_get_default_text(cat) ==
    CASE cat = "POSITIVE" ->
           "That's wonderful! Keep riding this wave and enjoy the moment."
      [] cat = "NEUTRAL_TIRED" ->
           "It's okay to feel neutral. Rest when you need it."
      [] cat = "SAD_LOW" ->
           "I hear you. You're not alone in this. One step at a time."
      [] cat = "ANGRY_FRUSTRATED" ->
           "Your feelings are valid. Take a breath and give yourself space."
      [] cat = "ANXIOUS_STRESSED" ->
           "Breathe. You're safe right now. One moment at a time."
      [] cat = "HEAVY_DEEP" ->
           "I'm glad you're here. Please reach out to someone you trust. Your life matters."
      [] OTHER -> "Thanks for checking in with me."

\* Python's  not x  for a text that is None or a string
Falsy(x) == x = None \/ x = ""

get_response_for_mood_no_fallback(catalog, files, cat) ==
    get_content_for_category(catalog, files, cat)

\* ContentLoader.get_response_for_mood: the dicts it can return
get_response_for_mood(catalog, files, cat) ==
    {IF Falsy(content.text)
     THEN [content EXCEPT !.text = _get_default_text(cat)]
     ELSE content :
        content \in get_content_for_category(catalog, files, cat)}

(***************************************************************************)
(* Inputs of the content loader                                            *)
(***************************************************************************)
MemeFiles == {"m1.jpg", "m2.jpg"}

\* The lists a category of responses.json can hold under each key
TextLists == {<< >>, <<"Line one.">>, <<"", "Line one.">>}
MemeLists == {<< >>, <<"m1.jpg", "m2.jpg">>}
VideoLists == {<< >>, <<"https://youtu.be/v1">>}

ListsUnder(key) ==
    CASE key = "texts" -> TextLists
      [] key = "memes" -> MemeLists
      [] key = "videos" -> VideoLists

\* The data of one category: each of the three keys present or not
CategoryData ==
    UNION {{d \in [K -> TextLists \cup MemeLists \cup VideoLists] :
               \A key \in K : d[key] \in ListsUnder(key)} :
           K \in SUBSET {"texts", "memes", "videos"}}

\* json.load of responses.json, or {} when the file is missing.
\* get_content_for_category reads the entry of one category only: the
\* catalogs of one category key stand for all.
_load_responses ==
    {EmptyDict} \cup
    {[k \in {c} |-> d] : c \in CategoryKeys, d \in CategoryData}

InitContent ==
    /\ ClassifierLoaded(EmptyDict)
    /\ \E rs \in _load_responses, files \in SUBSET MemeFiles :
          ContentLoaded(rs, files)
    /\ DatabaseCreated(0, FALSE)

CallGetResponseForMood ==
    /\ mood = None
    /\ \E cat \in CategoryKeys :
        /\ mood' = cat
        /\ response' \in get_response_for_mood(responses, media_files, cat)
    /\ UNCHANGED <<responses, media_files>>
    /\ UNCHANGED <<cvars, lvars>>

NextContent == CallGetResponseForMood

SpecContent == InitContent /\ [][NextContent]_vars

(***************************************************************************)
(* admin.handle_reload.  The handlers of the bot run one after another in  *)
(* one event loop, and classify, get_response_for_mood and reload hold no  *)
(* await: each runs to its end before another handler starts.              *)
(***************************************************************************)
\* The contents responses.json can have when it is loaded again
ReloadCatalogs ==
    {EmptyDict,
     [k \in {"POSITIVE"} |-> [key \in {"texts"} |-> <<"Line one.">>]],
     [k \in {"POSITIVE"} |-> [key \in {"memes"} |-> <<"m1.jpg", "m2.jpg">>]],
     [k \in {"SAD_LOW"} |->
         [key \in {"texts", "videos"} |->
             IF key = "texts" THEN <<"", "Line one.">>
             ELSE <<"https://youtu.be/v1">>]]}

reload_in_place(old, loaded) ==
    [k \in DOMAIN old \cup DOMAIN loaded |->
        IF k \in DOMAIN loaded THEN loaded[k] ELSE old[k]]

\* ContentLoader.reload: self.responses = self._load_responses()
reload(old, loaded) == loaded

\* admin.handle_reload, by an admin
HandleReload ==
    /\ \E loaded \in ReloadCatalogs :
        /\ responses' = reload(responses, loaded)
        /\ ret' = [op |-> "reload", loaded |-> loaded]
    /\ UNCHANGED <<media_files, mood, response>>
    /\ UNCHANGED dvars
    /\ UNCHANGED conv
    /\ UNCHANGED cvars

InitReload ==
    /\ \E kw \in {t \in OneKeywordTables : DOMAIN t \subseteq {"HEAVY_DEEP"}} :
          ClassifierLoaded(kw)
    /\ \E rs \in ReloadCatalogs : ContentLoaded(rs, MemeFiles)
    /\ DatabaseCreated(0, FALSE)

NextReload ==
    \/ HandleReload
    \/ CallGetResponseForMood
    \/ CallClassifyTextMood
    \/ CallClassifyButton

SpecReload == InitReload /\ [][NextReload]_vars

(***************************************************************************)
(* Claims about the response selection                                     *)
(***************************************************************************)
\* C9: get_response_for_mood returns a meme only for POSITIVE or
\* NEUTRAL_TIRED and a video only for SAD_LOW or ANXIOUS_STRESSED; for
\* ANGRY_FRUSTRATED and HEAVY_DEEP meme and video are both null, also when
\* the catalog lists memes or videos for them.
C9_MediaOnlyForEligible ==
    mood # None =>
        /\ response.meme # None => mood \in {"POSITIVE", "NEUTRAL_TIRED"}
        /\ response.video # None => mood \in {"SAD_LOW", "ANXIOUS_STRESSED"}
        /\ mood \in {"ANGRY_FRUSTRATED", "HEAVY_DEEP"} =>
              response.meme = None /\ response.video = None

C9_Witness ==
    /\ mood = "ANGRY_FRUSTRATED"
    /\ mood \in DOMAIN responses
    /\ HasItems(responses[mood], "memes")
    /\ HasItems(responses[mood], "videos")
    /\ MemeFiles \subseteq media_files
    /\ response.meme = None
    /\ response.video = None

\* The non-empty lines of the text list of category cat, if it has one
NonEmptyLines(cat) ==
    IF cat \in DOMAIN responses /\ HasItems(responses[cat], "texts")
    THEN Choices(responses[cat]["texts"]) \ {""}
    ELSE {}

\* C10: get_response_for_mood returns a non-empty text for every category
\* and catalog: the fixed generic text with text_id "default" and no media
\* for a category absent from the catalog, and the category's hardcoded
\* fallback text when the category is present with an empty or missing
\* text list or when the chosen line is empty.
C10_TextNeverEmpty ==
    mood # None =>
        /\ response.text \notin {None, ""}
        /\ mood \notin DOMAIN responses =>
              /\ response.text = "Thanks for checking in. Take care of yourself."
              /\ response.text_id = "default"
              /\ response.meme = None
              /\ response.video = None
        /\ mood \in DOMAIN responses =>
              /\ response.text \in NonEmptyLines(mood) \cup {_get_default_text(mood)}
              /\ NonEmptyLines(mood) = {} => response.text = _get_default_text(mood)

C10_Witness ==
    /\ mood \in MOOD_CATEGORIES
    /\ mood \in DOMAIN responses
    /\ NonEmptyLines(mood) # {}
    /\ response.text = _get_default_text(mood)
    /\ response.text_id # None

\* The memes the catalog lists for category cat
ListedMemes(cat) ==
    IF cat \in DOMAIN responses /\ HasItems(responses[cat], "memes")
    THEN Choices(responses[cat]["memes"])
    ELSE {}

\* C11: the meme of a response is the path of a file that the catalog lists
\* for the category and that exists in the media directory when it is
\* selected; when no listed file exists the meme is null; the response is
\* returned with its text in every case.
C11_NoDanglingMedia ==
    mood # None =>
        /\ response.meme # None =>
              \E f \in ListedMemes(mood) \cap media_files :
                  response.meme = MemePath(f)
        /\ ListedMemes(mood) \cap media_files = {} => response.meme = None
        /\ response.text \notin {None, ""}

C11_Witness ==
    /\ mood \in {"POSITIVE", "NEUTRAL_TIRED"}
    /\ ListedMemes(mood) \cap media_files # {}
    /\ ListedMemes(mood) \ media_files # {}
    /\ response.meme = None
    /\ response.text \notin {None, ""}

(***************************************************************************)
(* storage.py.  Timestamps are whole ticks.  SQLite's CURRENT_TIMESTAMP    *)
(* is the time in UTC; datetime.now() is the local time of the host,       *)
(* without a zone, so the two differ by the host's UTC offset.             *)
(***************************************************************************)
\* config.py CHECKIN_COOLDOWN_SECONDS = 7 * 24 * 60 * 60, in ticks
CHECKIN_COOLDOWN_SECONDS == 7 * TicksPerDay

MaxTime == CHECKIN_COOLDOWN_SECONDS + 1

\* The instants at which anything happens: the start of a cooldown window
\* and the ticks around its end
Instants ==
    {t \in 0..MaxTime : t = 0 \/ t >= CHECKIN_COOLDOWN_SECONDS - 1}

\* One tick east of UTC, UTC, one tick west
UtcOffsets == {1, 0, 0 - 1}

\* SQLite CURRENT_TIMESTAMP at time t
CURRENT_TIMESTAMP(t) == t

\* datetime.now() at time t on a host whose clock is offset ticks ahead
datetime_now(t, offset) == t + offset

\* f with key k set to v
Put(f, k, v) == [x \in DOMAIN f \cup {k} |-> IF x = k THEN v ELSE f[x]]

register_user_replace(rows, user_id, username, t) ==
    Put(rows, user_id,
        [username |-> username,
         first_seen_at |-> CURRENT_TIMESTAMP(t),
         last_checkin_at |-> Null])

\* Database.register_user: INSERT OR IGNORE INTO users (user_id, username)
register_user(rows, user_id, username, t) ==
    IF user_id \in DOMAIN rows THEN rows
    ELSE Put(rows, user_id,
             [username |-> username,
              first_seen_at |-> CURRENT_TIMESTAMP(t),
              last_checkin_at |-> Null])

\* Database.get_last_checkin
get_last_checkin(rows, user_id) ==
    IF user_id \in DOMAIN rows THEN rows[user_id].last_checkin_at ELSE Null

\* Database.can_checkin, datetime.now() reading local_now
can_checkin(rows, local_now, user_id, cooldown_seconds) ==
    LET last_checkin == get_last_checkin(rows, user_id)
    IN  IF last_checkin = Null
        THEN [allowed |-> TRUE, remaining |-> Null]
        ELSE LET time_elapsed == local_now - last_checkin[1]
             IN  IF time_elapsed >= cooldown_seconds
                 THEN [allowed |-> TRUE, remaining |-> Null]
                 ELSE [allowed |-> FALSE,
                       remaining |-> Some(cooldown_seconds - time_elapsed)]

CheckinRowKeepRaw(raw_flag, t, user_id, cat, input_type, mood_raw, response_text_id, meme_file, video_url) ==
    [user_id |-> user_id,
     created_at |-> CURRENT_TIMESTAMP(t),
     input_type |-> input_type,
     mood_raw |-> mood_raw,
     category |-> cat,
     response_text_id |-> response_text_id,
     meme_file |-> meme_file,
     video_url |-> video_url]

\* storage.py lines 116-124: the row log_checkin inserts
CheckinRow(raw_flag, t, user_id, cat, input_type, mood_raw, response_text_id, meme_file, video_url) ==
    [user_id |-> user_id,
     created_at |-> CURRENT_TIMESTAMP(t),
     input_type |-> input_type,
     mood_raw |-> IF raw_flag THEN mood_raw ELSE Null,
     category |-> cat,
     response_text_id |-> response_text_id,
     meme_file |-> meme_file,
     video_url |-> video_url]

\* storage.py lines 127-130: UPDATE users SET last_checkin_at =
\* CURRENT_TIMESTAMP WHERE user_id = ?  (no row of that id: nothing changes)
UpdateLastCheckin(rows, user_id, t) ==
    IF user_id \in DOMAIN rows
    THEN [rows EXCEPT ![user_id].last_checkin_at = Some(CURRENT_TIMESTAMP(t))]
    ELSE rows

\* Database.log_checkin called directly (as tests.py does): the user, the
\* category and the input
LogInputs ==
    {[category |-> "POSITIVE", input_type |-> "button", mood_raw |-> Null],
     [category |-> "SAD_LOW", input_type |-> "text",
      mood_raw |-> Some(<<"a">>)]}

\* Database.log_checkin up to line 130: INSERT and UPDATE are executed in
\* a transaction of this connection, unseen by the others
LogCheckinExecute ==
    /\ tx = Null
    /\ Len(checkins) < MaxCheckins
    /\ \E user_id \in UserIds, in \in LogInputs :
        tx' = Some([row |-> CheckinRow(LOG_RAW_TEXT, now, user_id, in.category,
                                       in.input_type, in.mood_raw,
                                       None, None, None),
                    user_id |-> user_id,
                    updated_at |-> now])
    /\ UNCHANGED <<users, checkins, now, utc_offset, LOG_RAW_TEXT, ret, conv>>
    /\ UNCHANGED <<cvars, rvars>>

\* Database.log_checkin line 132: conn.commit()
LogCheckinCommit ==
    /\ tx # Null
    /\ checkins' = Append(checkins, tx[1].row)
    /\ users' = UpdateLastCheckin(users, tx[1].user_id, tx[1].updated_at)
    /\ tx' = Null
    /\ ret' = [op |-> "log_checkin", user_id |-> tx[1].user_id]
    /\ UNCHANGED <<now, utc_offset, LOG_RAW_TEXT, conv>>
    /\ UNCHANGED <<cvars, rvars>>

\* Database.register_user; a writer waits for the transaction in progress
RegisterUser ==
    /\ tx = Null
    /\ \E user_id \in UserIds :
        /\ users' = register_user(users, user_id, None, now)
        /\ ret' = [op |-> "register_user", user_id |-> user_id]
    /\ UNCHANGED <<checkins, tx, now, utc_offset, LOG_RAW_TEXT, conv>>
    /\ UNCHANGED <<cvars, rvars>>

\* The usernames Telegram reports for a user (bot.py line 50)
Usernames == {"ann"}

\* Database.register_user called with a username
RegisterUserAs ==
    /\ tx = Null
    /\ \E user_id \in UserIds, username \in Usernames :
        /\ users' = register_user(users, user_id, username, now)
        /\ ret' = [op |-> "register_user", user_id |-> user_id]
    /\ UNCHANGED <<checkins, tx, now, utc_offset, LOG_RAW_TEXT, conv>>
    /\ UNCHANGED <<cvars, rvars>>

\* Database.can_checkin, from any connection: it reads what is committed
CanCheckin ==
    /\ \E user_id \in UserIds :
        ret' = [op |-> "can_checkin", user_id |-> user_id,
                cooldown |-> CHECKIN_COOLDOWN_SECONDS,
                value |-> can_checkin(users, datetime_now(now, utc_offset),
                                      user_id, CHECKIN_COOLDOWN_SECONDS)]
    /\ UNCHANGED <<users, checkins, tx, now, utc_offset, LOG_RAW_TEXT, conv>>
    /\ UNCHANGED <<cvars, rvars>>

\* Time passes
Tick ==
    /\ tx = Null
    /\ \E t \in Instants : t > now /\ now' = t
    /\ ret' = [op |-> "none"]
    /\ UNCHANGED <<users, checkins, tx, utc_offset, LOG_RAW_TEXT, conv>>
    /\ UNCHANGED <<cvars, rvars>>

\* datetime('now', '-7 days') at time t, in ticks
SevenDaysBefore(t) == t - 7 * TicksPerDay

\* Database.get_stats.  Its two SELECTs over checkins each evaluate
\* datetime('now', '-7 days') when they run: the first at t_week, the
\* second at t_categories
get_stats(rows, ledger, t_week, t_categories) ==
    LET week == {i \in 1..Len(ledger) :
                    ledger[i].created_at >= SevenDaysBefore(t_week)}
        grouped == {i \in 1..Len(ledger) :
                    ledger[i].created_at >= SevenDaysBefore(t_categories)}
    IN  [total_users |-> Cardinality(DOMAIN rows),
         week_checkins |-> Cardinality(week),
         category_counts |->
            [c \in {ledger[i].category : i \in grouped} |->
                Cardinality({i \in grouped : ledger[i].category = c})]]

\* Database.get_stats called; a reader sees the committed tables.  The
\* clock can move on by a tick between the two SELECTs.
GetStats ==
    /\ \E t_categories \in {t \in Instants : t = now \/ t = now + 1} :
        /\ now' = t_categories
        /\ ret' = [op |-> "get_stats", t_week |-> now,
                   value |-> get_stats(users, checkins, now, t_categories)]
    /\ UNCHANGED <<users, checkins, tx, utc_offset, LOG_RAW_TEXT>>
    /\ UNCHANGED conv
    /\ UNCHANGED <<cvars, rvars>>

InitLedger ==
    /\ ClassifierLoaded(EmptyDict)
    /\ ContentLoaded(EmptyDict, {})
    /\ \E offset \in UtcOffsets : DatabaseCreated(offset, FALSE)

NextLedger ==
    \/ RegisterUser
    \/ LogCheckinExecute
    \/ LogCheckinCommit
    \/ CanCheckin
    \/ Tick

SpecLedger == InitLedger /\ [][NextLedger]_vars

\* The ledger with its statistics reader, on a host whose clock is UTC
InitStats ==
    /\ ClassifierLoaded(EmptyDict)
    /\ ContentLoaded(EmptyDict, {})
    /\ DatabaseCreated(0, FALSE)

NextStats ==
    \/ RegisterUser
    \/ LogCheckinExecute
    \/ LogCheckinCommit
    \/ GetStats
    \/ Tick

SpecStats == InitStats /\ [][NextStats]_vars

\* The ledger with users registered under their usernames
InitRegister ==
    /\ ClassifierLoaded(EmptyDict)
    /\ ContentLoaded(EmptyDict, {})
    /\ DatabaseCreated(0, FALSE)

NextRegister ==
    \/ RegisterUser
    \/ RegisterUserAs
    \/ LogCheckinExecute
    \/ LogCheckinCommit
    \/ Tick

SpecRegister == InitRegister /\ [][NextRegister]_vars


(***************************************************************************)
(* bot.py: the handlers, each run to its end before the next update is     *)
(* taken.  The ConversationHandler of main keeps one state for each        *)
(* (chat, user): checkin_start is its entry point, mood_button_selected    *)
(* and mood_text_received are the handlers of state AWAITING_MOOD_TEXT.    *)
(***************************************************************************)
\* Database.log_checkin as one call: both statements, then the commit
log_checkin(rows, ledger, raw_flag, t, user_id, cat, input_type, mood_raw, response_text_id, meme_file, video_url) ==
    [users |-> UpdateLastCheckin(rows, user_id, t),
     checkins |-> Append(ledger,
                         CheckinRow(raw_flag, t, user_id, cat, input_type,
                                    mood_raw, response_text_id, meme_file,
                                    video_url))]

\* The text messages users send, and the labels their callbacks carry
BotTexts == {<<"a">>, <<" ">>, <<"!">>}
BotLabels == {"Happy"}

\* mood_text.strip() == ""
IsBlank(text) == \A i \in 1..Len(text) : IsSpace(text[i])

\* keywords.json and responses.json of the running bot
BotKeywords == [k \in {"POSITIVE"} |-> <<<<"a">>>>]
BotResponses ==
    [k \in {"POSITIVE"} |->
        [key \in {"texts"} |-> <<"Line one.">>]]

\* bot.start
Start ==
    /\ \E user_id \in UserIds :
        users' = register_user(users, user_id, None, now)
    /\ UNCHANGED <<checkins, tx, now, utc_offset, LOG_RAW_TEXT, ret, conv>>
    /\ UNCHANGED <<cvars, rvars>>

\* bot.checkin_start, reached as entry point of the conversation
CheckinStart ==
    /\ \E chat \in ChatIds, user_id \in UserIds :
        /\ conv[<<chat, user_id>>] = END
        /\ LET r == can_checkin(users, datetime_now(now, utc_offset),
                                user_id, CHECKIN_COOLDOWN_SECONDS)
           IN  conv' = [conv EXCEPT ![<<chat, user_id>>] =
                           IF r.allowed THEN AWAITING_MOOD_TEXT ELSE END]
    /\ UNCHANGED <<dvars, ret>>
    /\ UNCHANGED <<cvars, rvars>>

\* bot.mood_button_selected; the callback data is "mood_text" or that of
\* a mood button
MoodButtonSelected ==
    /\ Len(checkins) < MaxCheckins
    /\ \E chat \in ChatIds, user_id \in UserIds,
          mood_label \in BotLabels \cup {"text"} :
        /\ conv[<<chat, user_id>>] = AWAITING_MOOD_TEXT
        /\ IF mood_label = "text"
           THEN UNCHANGED <<users, checkins, conv>>
           ELSE
             \E cat \in classify(keywords, mood_label, TRUE) :
             \E resp \in get_response_for_mood(responses, media_files, cat) :
             LET db == log_checkin(users, checkins, LOG_RAW_TEXT, now, user_id,
                                   cat, "button", Null, resp.text_id,
                                   resp.meme, resp.video)
             IN  /\ users' = db.users
                 /\ checkins' = db.checkins
                 /\ conv' = [conv EXCEPT ![<<chat, user_id>>] = END]
    /\ UNCHANGED <<tx, now, utc_offset, LOG_RAW_TEXT, ret>>
    /\ UNCHANGED <<cvars, rvars>>

\* bot.mood_text_received
MoodTextReceived ==
    /\ Len(checkins) < MaxCheckins
    /\ \E chat \in ChatIds, user_id \in UserIds, mood_text \in BotTexts :
        /\ conv[<<chat, user_id>>] = AWAITING_MOOD_TEXT
        /\ IF mood_text = << >> \/ IsBlank(mood_text)
           THEN UNCHANGED <<users, checkins, conv>>
           ELSE
             \E cat \in classify_text_mood(keywords, mood_text) :
             \E resp \in get_response_for_mood(responses, media_files, cat) :
             LET db == log_checkin(users, checkins, LOG_RAW_TEXT, now, user_id,
                                   cat, "text", Some(mood_text), resp.text_id,
                                   resp.meme, resp.video)
             IN  /\ users' = db.users
                 /\ checkins' = db.checkins
                 /\ conv' = [conv EXCEPT ![<<chat, user_id>>] = END]
    /\ UNCHANGED <<tx, now, utc_offset, LOG_RAW_TEXT, ret>>
    /\ UNCHANGED <<cvars, rvars>>

\* bot.cancel, the fallback of the conversation
Cancel ==
    /\ \E chat \in ChatIds, user_id \in UserIds :
        /\ conv[<<chat, user_id>>] = AWAITING_MOOD_TEXT
        /\ conv' = [conv EXCEPT ![<<chat, user_id>>] = END]
    /\ UNCHANGED <<dvars, ret>>
    /\ UNCHANGED <<cvars, rvars>>

InitBot ==
    /\ ClassifierLoaded(BotKeywords)
    /\ ContentLoaded(BotResponses, {})
    /\ DatabaseCreated(0, FALSE)

NextBot ==
    \/ Start
    \/ CheckinStart
    \/ MoodButtonSelected
    \/ MoodTextReceived
    \/ Cancel
    \/ Tick

SpecBot == InitBot /\ [][NextBot]_vars

\* The check-in by free text, on a bot that keeps the raw text
InitText ==
    /\ ClassifierLoaded(BotKeywords)
    /\ ContentLoaded(BotResponses, {})
    /\ DatabaseCreated(0, TRUE)

NextText ==
    \/ Start
    \/ CheckinStart
    \/ MoodTextReceived
    \/ Cancel
    \/ Tick

SpecText == InitText /\ [][NextText]_vars

(***************************************************************************)
(* The check-in handlers with a persistence backend that can fail.  No     *)
(* handler and no method of Database catches an exception of sqlite3: it   *)
(* leaves log_checkin before conn.commit(), and the handler at the call of *)
(* log_checkin, before send_mood_response.                                 *)
(***************************************************************************)
log_checkin_raises_after_insert(rows, ledger, row) ==
    [users |-> rows, checkins |-> Append(ledger, row)]

\* Database.log_checkin left by an exception: conn.commit() was not
\* reached, the connection is dropped and SQLite rolls its transaction back
log_checkin_raises(rows, ledger, row) ==
    [users |-> rows, checkins |-> ledger]

\* bot.py lines 142-156 and 175-189: db.log_checkin(...), then
\* send_mood_response(...), then return ConversationHandler.END; an
\* exception of log_checkin ends the handler and leaves the conversation
\* where it was
LogAndRespond(chat, user_id, cat, resp, input_type, mood_raw, handler) ==
    \/ LET db == log_checkin(users, checkins, LOG_RAW_TEXT, now, user_id, cat,
                             input_type, mood_raw, resp.text_id, resp.meme,
                             resp.video)
       IN  /\ users' = db.users
           /\ checkins' = db.checkins
           /\ mood' = cat
           /\ response' = resp
           /\ conv' = [conv EXCEPT ![<<chat, user_id>>] = END]
           /\ ret' = [op |-> handler, user_id |-> user_id, raised |-> FALSE,
                      delivered |-> TRUE]
    \/ \* send_mood_response raises: the check-in is committed, nothing is
       \* delivered and the handler does not return ConversationHandler.END
       LET db == log_checkin(users, checkins, LOG_RAW_TEXT, now, user_id, cat,
                             input_type, mood_raw, resp.text_id, resp.meme,
                             resp.video)
       IN  /\ users' = db.users
           /\ checkins' = db.checkins
           /\ UNCHANGED <<mood, response, conv>>
           /\ ret' = [op |-> handler, user_id |-> user_id, raised |-> FALSE,
                      delivered |-> FALSE]
    \/ LET db == log_checkin_raises(users, checkins,
                     CheckinRow(LOG_RAW_TEXT, now, user_id, cat, input_type,
                                mood_raw, resp.text_id, resp.meme, resp.video))
       IN  /\ users' = db.users
           /\ checkins' = db.checkins
           /\ UNCHANGED <<mood, response, conv>>
           /\ ret' = [op |-> handler, user_id |-> user_id, raised |-> TRUE,
                      delivered |-> FALSE]

\* bot.mood_button_selected for a mood button, with its reply
MoodButtonReply ==
    /\ Len(checkins) < MaxCheckins
    /\ \E chat \in ChatIds, user_id \in UserIds, mood_label \in BotLabels :
        /\ conv[<<chat, user_id>>] = AWAITING_MOOD_TEXT
        /\ \E cat \in classify(keywords, mood_label, TRUE) :
           \E resp \in get_response_for_mood(responses, media_files, cat) :
              LogAndRespond(chat, user_id, cat, resp, "button", Null,
                            "mood_button_selected")
    /\ UNCHANGED <<tx, now, utc_offset, LOG_RAW_TEXT>>
    /\ UNCHANGED <<responses, media_files>>
    /\ UNCHANGED cvars

\* bot.mood_text_received for a text that is not blank, with its reply
MoodTextReply ==
    /\ Len(checkins) < MaxCheckins
    /\ \E chat \in ChatIds, user_id \in UserIds, mood_text \in BotTexts :
        /\ conv[<<chat, user_id>>] = AWAITING_MOOD_TEXT
        /\ ~(mood_text = << >> \/ IsBlank(mood_text))
        /\ \E cat \in classify_text_mood(keywords, mood_text) :
           \E resp \in get_response_for_mood(responses, media_files, cat) :
              LogAndRespond(chat, user_id, cat, resp, "text", Some(mood_text),
                            "mood_text_received")
    /\ UNCHANGED <<tx, now, utc_offset, LOG_RAW_TEXT>>
    /\ UNCHANGED <<responses, media_files>>
    /\ UNCHANGED cvars

InitBackend ==
    /\ ClassifierLoaded(BotKeywords)
    /\ ContentLoaded(BotResponses, {})
    /\ DatabaseCreated(0, FALSE)

NextBackend ==
    \/ Start
    \/ CheckinStart
    \/ MoodButtonReply
    \/ MoodTextReply

SpecBackend == InitBackend /\ [][NextBackend]_vars

(***************************************************************************)
(* Database.log_checkin called with any arguments, under either value of   *)
(* LOG_RAW_TEXT                                                            *)
(***************************************************************************)
\* The values of the arguments input_type and mood_raw
InputTypes == {"button", "text"}
RawTexts == {Null, Some(<<"a">>), Some(<<"A", "!">>)}

CallLogCheckin ==
    /\ Len(checkins) < MaxCheckins
    /\ \E user_id \in UserIds, input_type \in InputTypes,
          mood_raw \in RawTexts :
        LET db == log_checkin(users, checkins, LOG_RAW_TEXT, now, user_id,
                              "POSITIVE", input_type, mood_raw,
                              None, None, None)
        IN  /\ users' = db.users
            /\ checkins' = db.checkins
            /\ ret' = [op |-> "log_checkin", user_id |-> user_id,
                       input_type |-> input_type, mood_raw |-> mood_raw]
    /\ UNCHANGED <<tx, now, utc_offset, LOG_RAW_TEXT, conv>>
    /\ UNCHANGED <<cvars, rvars>>

InitPrivacy ==
    /\ ClassifierLoaded(EmptyDict)
    /\ ContentLoaded(EmptyDict, {})
    /\ \E raw \in BOOLEAN : DatabaseCreated(0, raw)

NextPrivacy == CallLogCheckin \/ RegisterUser

SpecPrivacy == InitPrivacy /\ [][NextPrivacy]_vars

(***************************************************************************)
(* Claims about the check-in ledger                                        *)
(***************************************************************************)
\* The ids of the rows of table checkins that belong to user_id
CheckinsOf(user_id) ==
    {i \in 1..Len(checkins) : checkins[i].user_id = user_id}

\* C2: after log_checkin(user, ...) completes, an immediate
\* can_checkin(user, cooldown) returns (False, remaining) with
\* 0 < remaining <= cooldown.
C2_Claimed ==
    ret.op = "log_checkin" =>
        LET r == can_checkin(users, datetime_now(now, utc_offset),
                             ret.user_id, CHECKIN_COOLDOWN_SECONDS)
        IN  /\ ~r.allowed
            /\ r.remaining # Null
            /\ 0 < r.remaining[1]
            /\ r.remaining[1] <= CHECKIN_COOLDOWN_SECONDS

\* C3: two check-in attempts of one user never both observe
\* allowed = True (never are two conversations of one user waiting for
\* the mood at once), so any two check-ins recorded for one user lie at
\* least one cooldown apart.
C3_Claimed ==
    \A user_id \in UserIds :
        /\ Cardinality({chat \in ChatIds :
                conv[<<chat, user_id>>] = AWAITING_MOOD_TEXT}) <= 1
        /\ \A i, j \in CheckinsOf(user_id) :
              i < j => checkins[j].created_at - checkins[i].created_at
                          >= CHECKIN_COOLDOWN_SECONDS

\* C4: can_checkin(user, cooldown) returns (True, None) when the user has
\* no prior check-in; otherwise, with elapsed = now - last_checkin_at, it
\* returns (True, None) when elapsed >= cooldown and
\* (False, cooldown - elapsed), a positive remaining, when elapsed < cooldown.
C4_Claimed ==
    ret.op = "can_checkin" =>
        LET last == get_last_checkin(users, ret.user_id)
        IN  IF last = Null
            THEN ret.value = [allowed |-> TRUE, remaining |-> Null]
            ELSE LET elapsed == now - last[1]
                 IN  IF elapsed >= ret.cooldown
                     THEN ret.value = [allowed |-> TRUE, remaining |-> Null]
                     ELSE /\ ret.value = [allowed |-> FALSE,
                                          remaining |-> Some(ret.cooldown - elapsed)]
                          /\ ret.cooldown - elapsed > 0

\* C5: a reader never sees a check-in row of a user without that user's
\* last_checkin_at set to the time of the row, nor a last_checkin_at
\* without the row it was set with.
C5_Claimed ==
    \A user_id \in UserIds :
        LET last == get_last_checkin(users, user_id)
        IN  /\ CheckinsOf(user_id) # {} =>
                  /\ last # Null
                  /\ \A i \in CheckinsOf(user_id) :
                        checkins[i].created_at <= last[1]
            /\ last # Null =>
                  \E i \in CheckinsOf(user_id) :
                        checkins[i].created_at = last[1]

\* The rows of table checkins created in the seven days up to time t
InWindow(t) ==
    {i \in 1..Len(checkins) : t - checkins[i].created_at <= 7 * TicksPerDay}

C12_Counts ==
    ret.op = "get_stats" =>
        /\ ret.value.week_checkins = Cardinality(InWindow(ret.t_week))
        /\ DOMAIN ret.value.category_counts =
              {checkins[i].category : i \in InWindow(ret.t_week)}
        /\ \A c \in DOMAIN ret.value.category_counts :
              ret.value.category_counts[c] =
                  Cardinality({i \in InWindow(ret.t_week) :
                                  checkins[i].category = c})

\* C12: get_stats returns week_checkins equal to the number of check-in
\* rows created in the seven days up to the query, and category_counts
\* whose keys are exactly the categories with a row in that window, each
\* with its number of rows there; get_stats changes neither table.
C12_Claimed ==
    /\ []C12_Counts
    /\ [][ret'.op = "get_stats" => users' = users /\ checkins' = checkins]_vars

RECURSIVE SumOf(_, _)
\* The sum of the values of f over the keys S
SumOf(f, S) ==
    IF S = {} THEN 0
    ELSE LET k == CHOOSE x \in S : TRUE
         IN  f[k] + SumOf(f, S \ {k})

\* C22: in every result of get_stats the values of category_counts add up
\* to week_checkins, also while log_checkin calls of other users are in
\* progress.
C22_Claimed ==
    ret.op = "get_stats" =>
        SumOf(ret.value.category_counts, DOMAIN ret.value.category_counts)
            = ret.value.week_checkins

C14_RawTextRedacted ==
    /\ ~LOG_RAW_TEXT =>
          \A i \in 1..Len(checkins) : checkins[i].mood_raw = Null
    /\ \A i \in 1..Len(checkins) :
          checkins[i].mood_raw # Null => LOG_RAW_TEXT
    /\ ret.op = "log_checkin" =>
          checkins[Len(checkins)].mood_raw =
              IF LOG_RAW_TEXT THEN ret.mood_raw ELSE Null

C14_Witness ==
    /\ ~LOG_RAW_TEXT
    /\ ret.op = "log_checkin"
    /\ ret.input_type = "text"
    /\ ret.mood_raw # Null
    /\ checkins[Len(checkins)].mood_raw = Null

C16_Claimed ==
    \A i \in 1..Len(checkins) :
        (checkins[i].input_type = "text" /\ checkins[i].mood_raw # Null)
            => _normalize_text(checkins[i].mood_raw[1]) # << >>

\* C17: classify, for a button or a text, returns one of the six
\* categories of MOOD_CATEGORIES; when the only categories a text matches
\* are keys of the keyword table outside MOOD_CATEGORIES the result is
\* NEUTRAL_TIRED, and such a key is never returned.
C17_Claimed ==
    call \in {"classify_text_mood", "classify_button"} =>
        /\ category \in MOOD_CATEGORIES
        /\ (/\ call = "classify_text_mood"
            /\ matched_categories(keywords, user_text) \cap MOOD_CATEGORIES = {})
              => category = "NEUTRAL_TIRED"

\* The whitespace-separated tokens of s: its maximal runs of characters
\* that are not blanks
Tokens(s) ==
    UNION {{SubSeq(s, i, j) : j \in {j \in i..Len(s) :
                /\ \A n \in i..j : s[n] # " "
                /\ i = 1 \/ s[i - 1] = " "
                /\ j = Len(s) \/ s[j + 1] = " "}} : i \in 1..Len(s)}

\* k occurs in s as a contiguous block starting after position offset
OccursAt(k, s, offset) ==
    /\ offset + Len(k) <= Len(s)
    /\ \A n \in 1..Len(k) : s[offset + n] = k[n]

\* The two rules of the claim, for keyword k and text t
BySubstring(k, t) ==
    \E offset \in 0..Len(_normalize_text(t)) :
        OccursAt(_normalize_text(k), _normalize_text(t), offset)

ByWord(k, t) ==
    Tokens(_normalize_text(k)) \cap Tokens(_normalize_text(t)) # {}

\* C18: a category matches a text exactly when one of its keywords, after
\* normalization, occurs in the normalized text as a contiguous substring
\* or has one of its words equal to a whitespace-separated token of the
\* normalized text.
C18_MatchRule ==
    call = "classify_text_mood" =>
        \A c \in DOMAIN keywords :
            c \in matched_categories(keywords, user_text) <=>
                \E n \in 1..Len(keywords[c]) :
                    \/ BySubstring(keywords[c][n], user_text)
                    \/ ByWord(keywords[c][n], user_text)

C18_Witness ==
    /\ call = "classify_text_mood"
    /\ \E c \in DOMAIN keywords :
          /\ c \in matched_categories(keywords, user_text)
          /\ \A n \in 1..Len(keywords[c]) :
                /\ ~BySubstring(keywords[c][n], user_text)
                /\ ByWord(keywords[c][n], user_text)

\* A step of a check-in handler in which log_checkin raised
HandlerRaised ==
    /\ ret' # ret
    /\ ret'.op \in {"mood_button_selected", "mood_text_received"}
    /\ ret'.raised

\* C19: when log_checkin fails the failure reaches the handler, no row is
\* appended and no last_checkin_at is set, and the handler sends no mood
\* response and does not end the conversation; a mood response is only
\* ever sent for a check-in that was recorded.
C19_FailureNotSilent ==
    /\ [][HandlerRaised =>
            /\ checkins' = checkins
            /\ users' = users
            /\ mood' = mood
            /\ response' = response
            /\ conv' = conv]_vars
    /\ [](mood # None =>
            \E i \in 1..Len(checkins) :
                /\ checkins[i].category = mood
                /\ checkins[i].response_text_id = response.text_id)
    /\ [](Len(checkins) = 0 => mood = None)

C19_Witness ==
    /\ ret.op = "mood_text_received"
    /\ ret.raised
    /\ conv[<<"private", ret.user_id>>] = AWAITING_MOOD_TEXT
    /\ ret.user_id \in DOMAIN users
    /\ users[ret.user_id].last_checkin_at = Null
    /\ checkins = << >>
    /\ mood = None

\* C20: after any sequence of /start, /checkin, button selections and
\* texts, every row of table checkins belongs to a user of table users,
\* and every user with a row in checkins has a last_checkin_at that is not
\* null, so that the cooldown applies to the user afterwards.
C20_Claimed ==
    \A i \in 1..Len(checkins) :
        /\ checkins[i].user_id \in DOMAIN users
        /\ get_last_checkin(users, checkins[i].user_id) # Null
        /\ ~can_checkin(users, datetime_now(checkins[i].created_at, utc_offset),
                        checkins[i].user_id, CHECKIN_COOLDOWN_SECONDS).allowed

\* C21: in mood_button_selected and mood_text_received the check-in is
\* recorded before the mood response is sent: a response is delivered only
\* for a recorded check-in, and when sending the response fails the
\* check-in stays recorded and the cooldown of the user has started.
C21_Claimed ==
    /\ mood # None =>
          \E i \in 1..Len(checkins) :
              /\ checkins[i].category = mood
              /\ checkins[i].response_text_id = response.text_id
    /\ (/\ ret.op \in {"mood_button_selected", "mood_text_received"}
        /\ ~ret.raised
        /\ ~ret.delivered)
          => /\ CheckinsOf(ret.user_id) # {}
             /\ ~can_checkin(users, datetime_now(now, utc_offset), ret.user_id,
                             CHECKIN_COOLDOWN_SECONDS).allowed

\* The table without the keywords whose normalized form is empty
WithoutEmptyKeywords(table) ==
    [c \in DOMAIN table |->
        SelectSeq(table[c], LAMBDA k : _normalize_text(k) # << >>)]

\* C23: a keyword whose normalized form is the empty string, made of
\* punctuation and whitespace only, never makes its category match:
\* classify_text_mood returns for every text the category it returns when
\* the table is without such keywords.
C23_Claimed ==
    call = "classify_text_mood" =>
        /\ matched_categories(keywords, user_text) =
              matched_categories(WithoutEmptyKeywords(keywords), user_text)
        /\ category \in
              classify_text_mood(WithoutEmptyKeywords(keywords), user_text)

====
